---------------------------- MODULE Spec2Model ----------------------------
(***************************************************************************)
(* The numeric core of lifetimes/plotting.py: the grids, aggregates, time  *)
(* series and paths each plotting function builds before it hands them to  *)
(* matplotlib.                                                             *)
(*                                                                         *)
(* Real-valued columns (model.data['frequency'], model.data['T']) are      *)
(* fixed-point numbers counted in tenths: 15 stands for 1.5.  Means are    *)
(* exact fractions <<numerator, denominator>> in lowest terms.             *)
(***************************************************************************)
EXTENDS Integers, Sequences, FiniteSets

VARIABLES
    op,            \* the plotting function that was called
    pc,            \* position inside it: "idle", "loop", "render", "done"
    outcome,       \* "none" while running, "ok" on return, else the exception raised
    data,          \* model.data: sequence of rows [frequency, T] (tenths)
    T,             \* plot_frequency_recency_matrix: the T argument (horizon)
    arg_max_x,     \* the max_x argument as passed: None or <<value>>
    arg_max_t,     \* the max_t argument as passed: None or <<value>>
    max_x,         \* local max_x after defaulting
    max_t,         \* local max_t after defaulting
    Z,             \* the grid under construction (rows of columns)
    i,             \* outer loop index (recency)
    j,             \* inner loop index (frequency)
    calls,         \* arguments of every model evaluation made by the loop, in order
    shown,         \* the grid handed to ax.imshow
    calibration_holdout_matrix,  \* plot_calibration_purchases_vs_holdout_purchases input rows
    kind,          \* its kind argument
    n,             \* its n argument
    duration_holdout,  \* local duration_holdout
    grouped,       \* summary.groupby(...)[...].mean()
    plotted,       \* grouped.ix[:n], the frame that is plotted
    max_T,         \* plot_expected_repeat_purchases: model.data['T'].max() (tenths)
    times_obs,     \* first linspace, in units of 1/(10*198)
    series_obs,    \* model curve over times_obs
    times_ext,     \* second linspace
    series_ext,    \* model curve over times_ext
    transactions,  \* plot_history_alive: transaction timestamps
    units,         \* its units argument
    freq,          \* its freq argument, as a bucket width
    start_date,    \* local start_date
    path,          \* calculate_alive_path(...)
    path_dates,    \* pd.date_range(...)
    payment_dates  \* buckets holding at least one purchase

vars == <<op, pc, outcome, data, T, arg_max_x, arg_max_t, max_x, max_t, Z, i, j,
          calls, shown, calibration_holdout_matrix, kind, n, duration_holdout,
          grouped, plotted, max_T, times_obs, series_obs, times_ext, series_ext,
          transactions, units, freq, start_date, path, path_dates, payment_dates>>

grid_vars == <<T, Z, i, j, calls>>
calib_vars == <<calibration_holdout_matrix, kind, n, duration_holdout, grouped, plotted>>
repeat_vars == <<max_T, times_obs, series_obs, times_ext, series_ext>>
history_vars == <<transactions, units, freq, start_date, path, path_dates, payment_dates>>

-----------------------------------------------------------------------------
(* Bounds of the model. *)

MaxArgX == 2        \* explicit max_x arguments are 0..MaxArgX
MaxArgT == 2        \* explicit max_t arguments are 0..MaxArgT
MaxHorizon == 2     \* T arguments are 1..MaxHorizon
MaxRows == 3        \* rows of a calibration/holdout matrix
MaxN == 3           \* n arguments are 0..MaxN
MaxShape == 3       \* rows/columns of a grid the model returns
MaxTx == 2          \* transactions of one customer
MaxTime == 3        \* timestamps are 0..MaxTime
MaxUnits == 5       \* units arguments are 0..MaxUnits

-----------------------------------------------------------------------------
(* Generic helpers. *)

None == <<>>
Some(v) == <<v>>
Option(S) == {None} \cup {Some(v) : v \in S}

Range(s) == {s[k] : k \in DOMAIN s}

Min(S) == CHOOSE m \in S : \A e \in S : m <= e
Max(S) == CHOOSE m \in S : \A e \in S : e <= m

RECURSIVE SeqsUpTo(_, _)
SeqsUpTo(S, len) ==
    IF len = 0 THEN {<<>>}
    ELSE LET shorter == SeqsUpTo(S, len - 1)
         IN  shorter \cup {Append(s, e) : s \in {t \in shorter : Len(t) = len - 1}, e \in S}

RECURSIVE SortSet(_)
SortSet(S) == IF S = {} THEN <<>> ELSE LET m == Min(S) IN <<m>> \o SortSet(S \ {m})

RECURSIVE GCD(_, _)
GCD(a, b) == IF b = 0 THEN a ELSE GCD(b, a % b)

-----------------------------------------------------------------------------
(* The fitted model: an external collaborator.  Its prediction functions   *)
(* are deterministic functions of their arguments; each is represented by  *)
(* a positional encoding that tells its arguments and their order apart.   *)

conditional_expected_number_of_purchases_up_to_time(t, x, t_x, age) ==
    ((t * 64 + x) * 64 + t_x) * 64 + age

conditional_probability_alive(x, t_x, age) == (x * 64 + t_x) * 64 + age

expected_number_of_purchases_up_to_time(t) == 3 * t + 7

(* model.data of the fitted models considered (values in tenths). *)
ExampleData == << [frequency |-> 0,  T |-> 100],
                  [frequency |-> 20, T |-> 200],
                  [frequency |-> 50, T |-> 300] >>

Datasets == { ExampleData,
              << [frequency |-> 10, T |-> 15] >>,
              << [frequency |-> 0, T |-> 100], [frequency |-> 10, T |-> 25] >>,
              << [frequency |-> 0, T |-> 0] >> }

(* Series.max() *)
RECURSIVE ColumnMaxFrom(_, _, _)
ColumnMaxFrom(col, k, best) ==
    IF k > Len(col) THEN best
    ELSE ColumnMaxFrom(col, k + 1, IF col[k] > best THEN col[k] ELSE best)

ColumnMax(col) == ColumnMaxFrom(col, 2, col[1])

frequency_column(d) == [k \in DOMAIN d |-> d[k].frequency]
T_column(d) == [k \in DOMAIN d |-> d[k].T]

(* int() of a float: truncation toward zero. *)
intCeil(v) == (v + 9) \div 10
int(v) == IF v >= 0 THEN v \div 10 ELSE -((-v) \div 10)

-----------------------------------------------------------------------------
(* plot_frequency_recency_matrix *)

zeros(rows, cols) == [a \in 1..rows |-> [b \in 1..cols |-> 0]]

Shape(g) == IF Len(g) = 0 THEN <<0, 0>> ELSE <<Len(g), Len(g[1])>>

default_max_x(given, d) ==
    IF given = None THEN int(ColumnMax(frequency_column(d))) ELSE given[1]

default_max_t(given, d) ==
    IF given = None THEN int(ColumnMax(T_column(d))) ELSE given[1]

(* The value stored at Z[i, j]: t_x = i and x = j, the age is max_t. *)
cell_value_swapped(horizon, ii, jj, mt) ==
    conditional_expected_number_of_purchases_up_to_time(horizon, ii, jj, mt)
cell_value(horizon, ii, jj, mt) ==
    conditional_expected_number_of_purchases_up_to_time(horizon, jj, ii, mt)

(* The nested for loops: the cell after (ii, jj). *)
next_cell_from_one(ii, jj, mx) ==
    IF jj < mx THEN <<ii, jj + 1>> ELSE <<ii + 1, IF mx > 0 THEN 1 ELSE 0>>
next_cell(ii, jj, mx) == IF jj < mx THEN <<ii, jj + 1>> ELSE <<ii + 1, 0>>

frequency_recency_matrix_call(horizon, gx, gt, d) ==
    /\ pc = "idle"
    /\ op' = "plot_frequency_recency_matrix"
    /\ data' = d
    /\ T' = horizon
    /\ arg_max_x' = gx
    /\ arg_max_t' = gt
    /\ max_x' = default_max_x(gx, d)
    /\ max_t' = default_max_t(gt, d)
    /\ Z' = zeros(default_max_t(gt, d) + 1, default_max_x(gx, d) + 1)
    /\ i' = 0
    /\ j' = 0
    /\ pc' = "loop"
    /\ UNCHANGED <<outcome, calls, shown, calib_vars, repeat_vars, history_vars>>

frequency_recency_matrix_cell ==
    /\ pc = "loop"
    /\ op = "plot_frequency_recency_matrix"
    /\ Z' = [Z EXCEPT ![i + 1][j + 1] = cell_value(T, i, j, max_t)]
    /\ calls' = Append(calls, <<T, j, i, max_t>>)
    /\ i' = next_cell(i, j, max_x)[1]
    /\ j' = next_cell(i, j, max_x)[2]
    /\ pc' = IF next_cell(i, j, max_x)[1] > max_t THEN "render" ELSE "loop"
    /\ UNCHANGED <<op, outcome, data, T, arg_max_x, arg_max_t, max_x, max_t, shown,
                   calib_vars, repeat_vars, history_vars>>

frequency_recency_matrix_render ==
    /\ pc = "render"
    /\ op = "plot_frequency_recency_matrix"
    /\ shown' = Z
    /\ outcome' = "ok"
    /\ pc' = "done"
    /\ UNCHANGED <<op, data, arg_max_x, arg_max_t, max_x, max_t, grid_vars,
                   calib_vars, repeat_vars, history_vars>>

-----------------------------------------------------------------------------
(* plot_calibration_purchases_vs_holdout_purchases *)

Kinds == {"frequency_cal", "recency_cal", "T_cal", "time_since_last_purchase"}

Row(f, r, t, h, d) ==
    [frequency_cal |-> f, recency_cal |-> r, T_cal |-> t,
     frequency_holdout |-> h, duration_holdout |-> d]

(* Rows a calibration_and_holdout_data frame may hold (recency_cal <= T_cal). *)
RowPool == { Row(0, 0, 2, 0, 1), Row(1, 1, 2, 1, 1), Row(1, 2, 3, 2, 1),
             Row(2, 1, 3, 3, 1), Row(2, 3, 3, 1, 2), Row(5, 0, 5, 0, 1) }

(* summary['model_predictions'] of one row *)
model_prediction(dur, r) ==
    conditional_expected_number_of_purchases_up_to_time(
        dur, r.frequency_cal, r.recency_cal, r.T_cal)

(* The column the frame is grouped by. *)
covariate_T_cal_only(r, kd) ==
    CASE kd = "frequency_cal" -> r.frequency_cal
      [] kd = "recency_cal" -> r.recency_cal
      [] kd = "T_cal" -> r.T_cal
      [] kd = "time_since_last_purchase" -> r.T_cal
covariate(r, kd) ==
    CASE kd = "frequency_cal" -> r.frequency_cal
      [] kd = "recency_cal" -> r.recency_cal
      [] kd = "T_cal" -> r.T_cal
      [] kd = "time_since_last_purchase" -> r.T_cal - r.recency_cal

(* DataFrame.mean() of one group: total / count, as an exact fraction. *)
mean_floor(total, count) == <<total \div count, 1>>
mean(total, count) ==
    LET g == GCD(total, count) IN <<total \div g, count \div g>>

(* groupby: one pass over the rows, accumulating per key. *)
accumulate(acc, key, actual, predicted) ==
    IF key \in DOMAIN acc
    THEN [acc EXCEPT ![key] = [count |-> @.count + 1,
                               frequency_holdout |-> @.frequency_holdout + actual,
                               model_predictions |-> @.model_predictions + predicted]]
    ELSE [k \in DOMAIN acc \cup {key} |->
            IF k = key
            THEN [count |-> 1, frequency_holdout |-> actual, model_predictions |-> predicted]
            ELSE acc[k]]

RECURSIVE groupby_sums(_, _, _, _, _)
groupby_sums(rows, dur, kd, k, acc) ==
    IF k > Len(rows) THEN acc
    ELSE groupby_sums(rows, dur, kd, k + 1,
                      accumulate(acc, covariate(rows[k], kd),
                                 rows[k].frequency_holdout,
                                 model_prediction(dur, rows[k])))

groupby_mean(rows, dur, kd) ==
    LET sums == groupby_sums(rows, dur, kd, 1, <<>>)
        keys == SortSet(DOMAIN sums)
    IN  [g \in 1..Len(keys) |->
            [key |-> keys[g],
             frequency_holdout |-> mean(sums[keys[g]].frequency_holdout, sums[keys[g]].count),
             model_predictions |-> mean(sums[keys[g]].model_predictions, sums[keys[g]].count)]]

(* frame.ix[:bound] on a numeric index: a label slice, end point included. *)
ix_upto(frame, bound) ==
    LET keep(row) == row.key <= bound IN SelectSeq(frame, keep)

calibration_purchases_vs_holdout_purchases(matrix, kd, nn) ==
    /\ pc = "idle"
    /\ Len(matrix) > 0
    /\ op' = "plot_calibration_purchases_vs_holdout_purchases"
    /\ calibration_holdout_matrix' = matrix
    /\ kind' = kd
    /\ n' = nn
    /\ duration_holdout' = matrix[1].duration_holdout
    /\ grouped' = groupby_mean(matrix, matrix[1].duration_holdout, kd)
    /\ plotted' = ix_upto(groupby_mean(matrix, matrix[1].duration_holdout, kd), nn)
    /\ outcome' = "ok"
    /\ pc' = "done"
    /\ UNCHANGED <<data, arg_max_x, arg_max_t, max_x, max_t, shown,
                   grid_vars, repeat_vars, history_vars>>

(* summary.iloc[0] of an empty frame *)
calibration_purchases_empty(kd, nn) ==
    /\ pc = "idle"
    /\ op' = "plot_calibration_purchases_vs_holdout_purchases"
    /\ calibration_holdout_matrix' = <<>>
    /\ kind' = kd
    /\ n' = nn
    /\ outcome' = "IndexError"
    /\ pc' = "done"
    /\ UNCHANGED <<data, arg_max_x, arg_max_t, max_x, max_t, shown, duration_holdout,
                   grouped, plotted, grid_vars, repeat_vars, history_vars>>

-----------------------------------------------------------------------------
(* plot_probability_alive_matrix *)

(* Grids model.conditional_probability_alive_matrix may return (tenths):   *)
(* any shape, 0.5 everywhere but for one cell.                             *)
alive_matrix(rows, cols, v) ==
    [a \in 1..rows |-> [b \in 1..cols |-> IF a = 1 /\ b = 1 THEN v ELSE 5]]

AliveMatrices ==
    {alive_matrix(rows, cols, v) : rows \in 1..MaxShape, cols \in 1..MaxShape,
                                   v \in {-1, 0, 5, 10, 11}}

probability_alive_matrix(gx, gt, d, returned) ==
    /\ pc = "idle"
    /\ op' = "plot_probability_alive_matrix"
    /\ data' = d
    /\ arg_max_x' = gx
    /\ arg_max_t' = gt
    /\ Z' = returned
    /\ shown' = returned
    /\ outcome' = "ok"
    /\ pc' = "done"
    /\ UNCHANGED <<max_x, max_t, T, i, j, calls, calib_vars, repeat_vars, history_vars>>

-----------------------------------------------------------------------------
(* plot_expected_repeat_purchases *)

NumPoints == 100

(* Times are kept in units of 1/time_scale of a tenth, so that every       *)
(* linspace point below is an integer.                                     *)
time_scale == 2 * (NumPoints - 1)

(* np.linspace(start, stop, num): num points, end point included. *)
linspace_no_endpoint(start, stop, num) ==
    [k \in 1..num |-> start + (k - 1) * ((stop - start) \div num)]
linspace(start, stop, num) ==
    LET step == (stop - start) \div (num - 1)
    IN  [k \in 1..num |-> IF k = num THEN stop ELSE start + (k - 1) * step]

curve(times) == [k \in DOMAIN times |-> expected_number_of_purchases_up_to_time(times[k])]

expected_repeat_purchases(d) ==
    /\ pc = "idle"
    /\ op' = "plot_expected_repeat_purchases"
    /\ data' = d
    /\ max_T' = ColumnMax(T_column(d))
    /\ times_obs' = linspace(0, max_T' * time_scale, NumPoints)
    /\ series_obs' = curve(times_obs')
    /\ times_ext' = linspace(max_T' * time_scale, (3 * max_T' * time_scale) \div 2, NumPoints)
    /\ series_ext' = curve(times_ext')
    /\ outcome' = "ok"
    /\ pc' = "done"
    /\ UNCHANGED <<arg_max_x, arg_max_t, max_x, max_t, shown, grid_vars, calib_vars,
                   history_vars>>

-----------------------------------------------------------------------------
(* plot_history_alive *)

(* lifetimes.utils.calculate_alive_path: one probability per bucket of     *)
(* width w, from the bucket of the first transaction to `periods` buckets  *)
(* later.  In bucket k the frequency is the number of buckets up to k that *)
(* hold a purchase, less the first purchase, and the recency is the last   *)
(* such bucket.                                                            *)
calculate_alive_path(txs, periods, w) ==
    LET first == Min(Range(txs))
        bucket(ts) == (ts - first) \div w
        seen(k) == {bucket(ts) : ts \in {e \in Range(txs) : bucket(e) <= k}}
    IN  [k \in 1..(periods + 1) |->
            conditional_probability_alive(Cardinality(seen(k - 1)) - 1,
                                          Max(seen(k - 1)), k - 1)]

(* pd.date_range(start, periods, freq) *)
date_range_from_next(start, periods, w) == [k \in 1..periods |-> start + k * w]
date_range(start, periods, w) == [k \in 1..periods |-> start + (k - 1) * w]

(* resample(freq, how='sum') keeps one row per bucket; the buckets with a purchase *)
resample_payment_dates(txs, w) == SortSet({(ts \div w) * w : ts \in Range(txs)})

history_alive(txs, nunits, w, given_start) ==
    /\ pc = "idle"
    /\ Len(txs) > 0
    /\ op' = "plot_history_alive"
    /\ transactions' = txs
    /\ units' = nunits
    /\ freq' = w
    /\ start_date' = IF given_start = None THEN Min(Range(txs)) ELSE given_start[1]
    /\ path' = calculate_alive_path(txs, nunits, w)
    /\ path_dates' = date_range(Min(Range(txs)), Len(path'), w)
    /\ payment_dates' = resample_payment_dates(txs, w)
    /\ outcome' = "ok"
    /\ pc' = "done"
    /\ UNCHANGED <<data, arg_max_x, arg_max_t, max_x, max_t, shown, grid_vars, calib_vars,
                   repeat_vars>>

(* min() of an empty column *)
history_alive_empty(nunits, w) ==
    /\ pc = "idle"
    /\ op' = "plot_history_alive"
    /\ units' = nunits
    /\ freq' = w
    /\ outcome' = "ValueError"
    /\ pc' = "done"
    /\ UNCHANGED <<data, arg_max_x, arg_max_t, max_x, max_t, shown, grid_vars, calib_vars,
                   repeat_vars, transactions, start_date, path, path_dates, payment_dates>>

-----------------------------------------------------------------------------
Init ==
    /\ op = "none"
    /\ pc = "idle"
    /\ outcome = "none"
    /\ data = <<>>
    /\ T = 0
    /\ arg_max_x = None
    /\ arg_max_t = None
    /\ max_x = 0
    /\ max_t = 0
    /\ Z = <<>>
    /\ i = 0
    /\ j = 0
    /\ calls = <<>>
    /\ shown = <<>>
    /\ calibration_holdout_matrix = <<>>
    /\ kind = "none"
    /\ n = 0
    /\ duration_holdout = 0
    /\ grouped = <<>>
    /\ plotted = <<>>
    /\ max_T = 0
    /\ times_obs = <<>>
    /\ series_obs = <<>>
    /\ times_ext = <<>>
    /\ series_ext = <<>>
    /\ transactions = <<>>
    /\ units = 0
    /\ freq = 0
    /\ start_date = 0
    /\ path = <<>>
    /\ path_dates = <<>>
    /\ payment_dates = <<>>

Next ==
    \/ /\ pc = "idle"
       /\ \E horizon \in 1..MaxHorizon, gx \in Option(0..MaxArgX),
             gt \in Option(0..MaxArgT), d \in Datasets :
               frequency_recency_matrix_call(horizon, gx, gt, d)
    \/ frequency_recency_matrix_cell
    \/ frequency_recency_matrix_render
    \/ /\ pc = "idle"
       /\ \E matrix \in SeqsUpTo(RowPool, MaxRows), kd \in Kinds, nn \in 0..MaxN :
               calibration_purchases_vs_holdout_purchases(matrix, kd, nn)
    \/ /\ pc = "idle"
       /\ \E kd \in Kinds, nn \in 0..MaxN : calibration_purchases_empty(kd, nn)
    \/ /\ pc = "idle"
       /\ \E gx \in Option(0..MaxArgX), gt \in Option(0..MaxArgT), d \in Datasets,
             returned \in AliveMatrices :
               probability_alive_matrix(gx, gt, d, returned)
    \/ /\ pc = "idle"
       /\ \E d \in Datasets : expected_repeat_purchases(d)
    \/ /\ pc = "idle"
       /\ \E txs \in SeqsUpTo(0..MaxTime, MaxTx), nunits \in 0..MaxUnits, w \in 1..2,
             given_start \in Option(0..MaxTime) :
               history_alive(txs, nunits, w, given_start)
    \/ /\ pc = "idle"
       /\ \E nunits \in 0..MaxUnits, w \in 1..2 : history_alive_empty(nunits, w)

Spec == Init /\ [][Next]_vars

(* The loop runs in one thread to its end: every step that can be taken is taken. *)
FairSpec ==
    Spec /\ WF_vars(frequency_recency_matrix_cell) /\ WF_vars(frequency_recency_matrix_render)

-----------------------------------------------------------------------------
(* Vocabulary of the properties below. *)

GridReturned == op = "plot_frequency_recency_matrix" /\ pc = "done"
CalibReturned ==
    op = "plot_calibration_purchases_vs_holdout_purchases" /\ pc = "done" /\ outcome = "ok"
AliveReturned == op = "plot_probability_alive_matrix" /\ pc = "done"
RepeatReturned == op = "plot_expected_repeat_purchases" /\ pc = "done"
HistoryReturned == op = "plot_history_alive" /\ pc = "done" /\ outcome = "ok"

RECURSIVE SumOver(_, _)
SumOver(S, val) ==
    IF S = {} THEN 0 ELSE LET e == CHOOSE x \in S : TRUE IN val[e] + SumOver(S \ {e}, val)

IsMaximumOf(col, m) == m \in Range(col) /\ \A e \in Range(col) : e <= m
TruncatesTo(v, k) == 10 * k <= v /\ v < 10 * (k + 1)

(* C1: the finished grid has shape (max_t + 1, max_x + 1) and the cell at  *)
(* row recency, column frequency holds the model's conditional expectation *)
(* for (T, frequency, recency, age = max_t).                               *)
C1_GridCells ==
    GridReturned =>
        /\ Len(shown) = max_t + 1
        /\ \A r \in 0..max_t :
            /\ Len(shown[r + 1]) = max_x + 1
            /\ \A f \in 0..max_x :
                shown[r + 1][f + 1] =
                    conditional_expected_number_of_purchases_up_to_time(T, f, r, max_t)

C1_Witness ==
    GridReturned /\ arg_max_x = Some(2) /\ arg_max_t = Some(1) /\ Shape(shown) = <<2, 3>>

(* C2: a bound that is not passed is the largest value of the column       *)
(* (frequency, resp. T) of model.data cut to its integer part, a bound     *)
(* that is passed is used as it is, and the data frequency = [0, 2, 5],    *)
(* T = [10, 20, 30] without explicit bounds gives a grid of shape (31, 6). *)
C2_DefaultBounds ==
    (op = "plot_frequency_recency_matrix" /\ pc # "idle") =>
        /\ arg_max_x = None =>
            \E m \in Range(frequency_column(data)) :
                IsMaximumOf(frequency_column(data), m) /\ TruncatesTo(m, max_x)
        /\ arg_max_x # None => max_x = arg_max_x[1]
        /\ arg_max_t = None =>
            \E m \in Range(T_column(data)) :
                IsMaximumOf(T_column(data), m) /\ TruncatesTo(m, max_t)
        /\ arg_max_t # None => max_t = arg_max_t[1]
        /\ Shape(Z) = <<max_t + 1, max_x + 1>>
        /\ (data = ExampleData /\ arg_max_x = None /\ arg_max_t = None) =>
            Shape(Z) = <<31, 6>>

C2_Witness ==
    /\ GridReturned
    /\ data = ExampleData
    /\ arg_max_x = None
    /\ arg_max_t = None
    /\ Shape(shown) = <<31, 6>>

ClaimCovariate(r) ==
    IF kind = "time_since_last_purchase" THEN r.T_cal - r.recency_cal ELSE r[kind]

Members(key) ==
    {k \in DOMAIN calibration_holdout_matrix :
        ClaimCovariate(calibration_holdout_matrix[k]) = key}

IsMeanOf(fraction, total, count) ==
    fraction[2] > 0 /\ fraction[1] * count = fraction[2] * total

(* C3: the groups are a partition of the rows by covariate value (for      *)
(* time_since_last_purchase: T_cal - recency_cal): every row's value is    *)
(* the key of exactly one group, and a group's two means are the sums of   *)
(* its members' frequency_holdout and model predictions over its size; a   *)
(* group of one row has that row's values.                                 *)
C3_GroupsPartitionRows ==
    CalibReturned =>
        LET rows == calibration_holdout_matrix
            actual == [k \in DOMAIN rows |-> rows[k].frequency_holdout]
            predicted ==
                [k \in DOMAIN rows |->
                    conditional_expected_number_of_purchases_up_to_time(
                        duration_holdout, rows[k].frequency_cal, rows[k].recency_cal,
                        rows[k].T_cal)]
        IN  /\ {grouped[g].key : g \in DOMAIN grouped} =
                    {ClaimCovariate(rows[k]) : k \in DOMAIN rows}
            /\ \A g, h \in DOMAIN grouped : grouped[g].key = grouped[h].key => g = h
            /\ \A g \in DOMAIN grouped :
                LET M == Members(grouped[g].key)
                IN  /\ IsMeanOf(grouped[g].frequency_holdout, SumOver(M, actual),
                                Cardinality(M))
                    /\ IsMeanOf(grouped[g].model_predictions, SumOver(M, predicted),
                                Cardinality(M))
                    /\ \A k \in M :
                        M = {k} =>
                            /\ grouped[g].frequency_holdout = <<actual[k], 1>>
                            /\ grouped[g].model_predictions = <<predicted[k], 1>>
            /\ \A g \in DOMAIN plotted : plotted[g] \in Range(grouped)

C3_Witness ==
    /\ CalibReturned
    /\ kind = "time_since_last_purchase"
    /\ Len(grouped) = 2
    /\ \E g \in DOMAIN grouped :
        /\ Cardinality(Members(grouped[g].key)) = 2
        /\ grouped[g].frequency_holdout = <<3, 2>>
    /\ \E g \in DOMAIN grouped : Cardinality(Members(grouped[g].key)) = 1

(* C4: the plotted frame is the first min(n, number of groups) groups in   *)
(* ascending order of covariate value.                                     *)
C4_FirstTopNGroups ==
    CalibReturned =>
        LET count == IF n < Len(grouped) THEN n ELSE Len(grouped)
        IN  /\ \A g \in 1..(Len(grouped) - 1) : grouped[g].key < grouped[g + 1].key
            /\ plotted = SubSeq(grouped, 1, count)

DurationsDiffer ==
    \E k, l \in DOMAIN calibration_holdout_matrix :
        calibration_holdout_matrix[k].duration_holdout #
            calibration_holdout_matrix[l].duration_holdout

(* C5: rows that disagree on duration_holdout make the call raise          *)
(* InvariantViolation and leave no result.                                 *)
C5_MismatchRaises ==
    (op = "plot_calibration_purchases_vs_holdout_purchases" /\ pc = "done"
        /\ DurationsDiffer) =>
        outcome = "InvariantViolation" /\ grouped = <<>> /\ plotted = <<>>

ValidAliveGrid(g) ==
    /\ Len(g) = default_max_t(arg_max_t, data) + 1
    /\ \A a \in DOMAIN g :
        /\ Len(g[a]) = default_max_x(arg_max_x, data) + 1
        /\ \A b \in DOMAIN g[a] : 0 <= g[a][b] /\ g[a][b] <= 10

(* C6: a grid from the model of another shape than (max_t + 1, max_x + 1), *)
(* or with a value outside [0, 1], raises InvariantViolation and is not    *)
(* handed to the renderer.                                                 *)
C6_InvalidGridRaises ==
    (AliveReturned /\ ~ValidAliveGrid(Z)) =>
        outcome = "InvariantViolation" /\ shown = <<>>

RealUnit == 10 * time_scale

EvenlySpaced(s) ==
    /\ s[1] < s[2]
    /\ \A k \in 1..(Len(s) - 2) : s[k + 1] - s[k] = s[k + 2] - s[k + 1]

(* C7: for a positive maximum age both series have exactly 100 evenly      *)
(* spaced points, over [0, max_T] and over [max_T, 1.5 max_T] with both    *)
(* ends included, the last observed time is the first extrapolated time,   *)
(* each value is the model's expected purchases at its time, and for       *)
(* max_T = 10 the two domains are [0, 10] and [10, 15].                    *)
C7_TwoLinearRanges ==
    (RepeatReturned /\ max_T > 0) =>
        /\ Len(times_obs) = 100
        /\ Len(times_ext) = 100
        /\ times_obs[1] = 0
        /\ times_obs[100] = max_T * time_scale
        /\ times_ext[1] = max_T * time_scale
        /\ 2 * times_ext[100] = 3 * max_T * time_scale
        /\ EvenlySpaced(times_obs)
        /\ EvenlySpaced(times_ext)
        /\ times_obs[100] = times_ext[1]
        /\ Len(series_obs) = 100
        /\ Len(series_ext) = 100
        /\ \A k \in 1..100 :
            /\ series_obs[k] = expected_number_of_purchases_up_to_time(times_obs[k])
            /\ series_ext[k] = expected_number_of_purchases_up_to_time(times_ext[k])
        /\ max_T = 100 =>
            /\ times_obs[100] = 10 * RealUnit
            /\ times_ext[1] = 10 * RealUnit
            /\ times_ext[100] = 15 * RealUnit

C7_Witness ==
    /\ RepeatReturned
    /\ max_T = 100
    /\ Len(times_obs) = 100
    /\ times_ext[100] = 15 * RealUnit

(* C8: a maximum age of zero or less raises ConfigurationError and         *)
(* produces neither series.                                                *)
C8_DegenerateRangeRaises ==
    (RepeatReturned /\ max_T <= 0) =>
        outcome = "ConfigurationError" /\ series_obs = <<>> /\ series_ext = <<>>

EachCellOnce ==
    op = "plot_frequency_recency_matrix" =>
        /\ \A a, b \in DOMAIN calls : calls[a] = calls[b] => a = b
        /\ Len(calls) <= (max_t + 1) * (max_x + 1)
        /\ pc = "done" =>
            /\ Len(calls) = (max_t + 1) * (max_x + 1)
            /\ \A r \in 0..max_t, f \in 0..max_x :
                \E a \in DOMAIN calls : calls[a] = <<T, f, r, max_t>>

(* C10: in one call the model is evaluated once for each cell: no cell     *)
(* twice, none skipped, (max_t + 1) * (max_x + 1) evaluations when the     *)
(* call returns, and the loop, once entered, ends.                         *)
C10_EachCellOnceAndEnds ==
    /\ []EachCellOnce
    /\ (op = "plot_frequency_recency_matrix" /\ pc = "loop") ~> (pc = "done")

C10_Witness ==
    GridReturned /\ max_t >= 2 /\ max_x >= 2 /\ Len(calls) = (max_t + 1) * (max_x + 1)

=============================================================================
